---- MODULE Spec2Model ----
(***************************************************************************)
(* Model of src/main.py: the caption / audio-transcription / normalization *)
(* pipeline that run_pipeline drives over the candidates returned by       *)
(* search_videos.  The external collaborators (YouTube search, the caption *)
(* provider, yt_dlp, the whisper model, langdetect, the translator) are    *)
(* modelled by their possible outcomes, chosen nondeterministically.       *)
(***************************************************************************)
EXTENDS Integers, Sequences, FiniteSets, TLC

(* ------------------------------ bounds --------------------------------- *)
\* Longest candidate list the search collaborator returns in the model.
MaxVideos == 2
\* Most segments a fetched caption track holds in the model.
MaxSegs == 3

(* ------------------------------ values --------------------------------- *)
\* Python's None and a present value, as sequences of length 0 and 1.
None == <<>>
Some(x) == <<x>>

VideoIds == 1..MaxVideos
\* The text of the k-th segment of a caption track, in temporal order.
SegTexts == <<"a", "b", "c", "d", "e", "f">>
\* A fetched transcript: a list of dicts with a "text" key (main.py:140).
Segment(t) == [text |-> t]
\* The transcripts fetch() returns: 0..MaxSegs segments, and the transcript
\* of one segment whose text is empty (a caption holding markup only).
SegLists ==
    {[k \in 1..n |-> Segment(SegTexts[k])] : n \in 0..MaxSegs}
        \cup {<<Segment("")>>}
\* Texts the speech model returns (task="translate").
ModelTexts == {"parliament convenes today"}
\* Languages langdetect reports.
Langs == {"si", "en", "ta"}

\* A caption track of the provider: <<kind, language code>>.
ManualSi == <<"manual", "si">>
ManualEn == <<"manual", "en">>
GeneratedSi == <<"generated", "si">>
GeneratedEn == <<"generated", "en">>
TrackKeys == {ManualSi, ManualEn, GeneratedSi, GeneratedEn}

\* url = f"https://www.youtube.com/watch?v={video_id}"
Url(video_id) == <<"https://www.youtube.com/watch?v=", video_id>>
\* video_id = video_url.split("v=")[-1]
VideoIdOf(video_url) == video_url[Len(video_url)]

\* Candidate lists: the ids the search collaborator returns, without repeats.
\* The pipeline never compares ids, so the lists of n distinct ids are
\* represented by the ascending list 1..n and the descending list n..1.
CandidateLists ==
    {[k \in 1..n |-> k] : n \in 0..MaxVideos}
        \cup {[k \in 1..n |-> n + 1 - k] : n \in 0..MaxVideos}

(* ------------------------- caption resolver ---------------------------- *)
\* An exception leaving a call, and a normal return of v.
Raise(e) == [raised |-> TRUE, exc |-> e]
Return(v) == [raised |-> FALSE, val |-> v]

\* TranscriptList.find_manually_created_transcript / find_generated_transcript:
\* the first language code of langs with a track of that kind, else the
\* lookup signals not-found (NoTranscriptFound).
RECURSIVE find_transcript(_, _, _)
find_transcript(tracks, kind, langs) ==
    IF langs = <<>> THEN Raise("NoTranscriptFound")
    ELSE IF <<kind, Head(langs)>> \in tracks THEN Return(<<kind, Head(langs)>>)
    ELSE find_transcript(tracks, kind, Tail(langs))

\* Python truthiness of a found Transcript object: it defines neither
\* __bool__ nor __len__, so it is always true.
TranscriptTruthy(t) == TRUE

\* Transcript.fetch() with the provider's answer fetching: None when the
\* provider fails, else Some(the segments of the track).
fetch(track, fetching) ==
    IF fetching = None THEN Raise("CouldNotRetrieveTranscript")
    ELSE Return([track |-> track, segs |-> fetching[1]])

\* Mutant of get_captions_try: the manual 'en' track is looked up before the
\* manual 'si' track.
get_captions_try_EnFirst(listing, fetching) ==
    IF listing = None THEN Raise("TranscriptsDisabled")
    ELSE
      LET en == find_transcript(listing[1], "manual", <<"en", "si">>) IN
      IF en.raised THEN en ELSE fetch(en.val, fetching)

\* The try-block of get_captions (main.py:50-59) with the provider's answers:
\* listing is None when list_transcripts fails, else Some(the video's tracks).
get_captions_try(listing, fetching) ==
    IF listing = None THEN Raise("TranscriptsDisabled")
    ELSE
      LET tracks == listing[1]
          si == find_transcript(tracks, "manual", <<"si">>)
      IN
      IF si.raised THEN si
      ELSE IF TranscriptTruthy(si.val) THEN fetch(si.val, fetching)
      ELSE
        LET en == find_transcript(tracks, "manual", <<"en">>) IN
        IF en.raised THEN en
        ELSE IF TranscriptTruthy(en.val) THEN fetch(en.val, fetching)
        ELSE
          LET g == find_transcript(tracks, "generated", <<"si", "en">>) IN
          IF g.raised THEN g ELSE fetch(g.val, fetching)

\* Mutant of CaughtByGetCaptions: except NoTranscriptFound only.
CaughtByGetCaptions_NotFoundOnly(e) == e = "NoTranscriptFound"

\* except Exception: every provider error is caught.
CaughtByGetCaptions(e) == TRUE

\* get_captions(video_id): the fetched segments, or None on a caught error.
\* fetched names the track whose fetch() produced the returned segments.
get_captions(listing, fetching) ==
    LET r == get_captions_try(listing, fetching) IN
    IF r.raised
      THEN IF CaughtByGetCaptions(r.exc)
             THEN [raised |-> FALSE, val |-> None, fetched |-> None]
             ELSE [raised |-> TRUE, exc |-> r.exc]
      ELSE [raised |-> FALSE, val |-> Some(r.val.segs), fetched |-> Some(r.val.track)]

\* Mutant of Truthy: `if captions is not None`, the empty list counts as
\* captions.
Truthy_NotNone(captions) == captions # None

\* Mutant of Truthy: a one-segment transcript counts as no captions.
Truthy_TwoOrMore(captions) == captions # None /\ Len(captions[1]) > 1

\* `if captions:` -- None and the empty list are both false.
Truthy(captions) == captions # None /\ Len(captions[1]) > 0

\* Mutant of JoinTexts: "".join, the segments run together.
RECURSIVE JoinTexts_NoSeparator(_)
JoinTexts_NoSeparator(segs) ==
    IF segs = <<>> THEN ""
    ELSE segs[1].text \o JoinTexts_NoSeparator(Tail(segs))

\* " ".join([c["text"] for c in captions])
RECURSIVE JoinTexts(_)
JoinTexts(segs) ==
    IF segs = <<>> THEN ""
    ELSE IF Len(segs) = 1 THEN segs[1].text
    ELSE segs[1].text \o " " \o JoinTexts(Tail(segs))

(* ---------------------- audio transcription fallback ------------------- *)
DownloadOutcomes == {"created", "nofile", "raised"}
ModelOutcomes == {"raised"} \cup ModelTexts

\* Mutant of transcribe_audio: the os.path.exists check is missing, the
\* speech model is invoked on whatever the download left.
transcribe_audio_NoExistsCheck(video_url, files, dl, m) ==
    LET id == VideoIdOf(video_url)
        after == IF dl = "created" THEN files \cup {id} ELSE files
    IN  IF dl = "raised"
          THEN [raised |-> TRUE, exc |-> "DownloadError", files |-> files,
                dl |-> dl, exists |-> FALSE, model |-> FALSE]
        ELSE IF m = "raised"
          THEN [raised |-> TRUE, exc |-> "ModelError", files |-> after,
                dl |-> dl, exists |-> id \in after, model |-> TRUE]
        ELSE [raised |-> FALSE, val |-> m, files |-> after,
              dl |-> dl, exists |-> id \in after, model |-> TRUE]

\* transcribe_audio(video_url) with the audio directory `files`, the outcome
\* dl of ydl.download and the outcome m of model.transcribe.  In the result,
\* exists is os.path.exists(audio_path) (FALSE when the download raised) and
\* model tells whether model.transcribe was invoked.
transcribe_audio(video_url, files, dl, m) ==
    LET id == VideoIdOf(video_url)
        after == IF dl = "created" THEN files \cup {id} ELSE files
    IN  IF dl = "raised"
          THEN [raised |-> TRUE, exc |-> "DownloadError", files |-> files,
                dl |-> dl, exists |-> FALSE, model |-> FALSE]
        ELSE IF id \notin after
          THEN [raised |-> TRUE, exc |-> "RuntimeError", files |-> after,
                dl |-> dl, exists |-> FALSE, model |-> FALSE]
        ELSE IF m = "raised"
          THEN [raised |-> TRUE, exc |-> "ModelError", files |-> after,
                dl |-> dl, exists |-> TRUE, model |-> TRUE]
        ELSE [raised |-> FALSE, val |-> m, files |-> after,
              dl |-> dl, exists |-> TRUE, model |-> TRUE]

(* --------------------------- text normalizer --------------------------- *)
DetectOutcomes == {"raised"} \cup Langs

\* GoogleTranslator(source="si", target="en").translate(text): the service's
\* English rendering of text, a value distinct from the text itself.
Translate(text) == "en(" \o text \o ")"

\* Mutant of normalize_text: everything not detected as 'en' is translated.
normalize_text_UnlessEn(text, d, trOk) ==
    IF d = "raised"
      THEN [raised |-> TRUE, exc |-> "LangDetectException", translated |-> FALSE]
    ELSE IF d # "en"
      THEN IF trOk
             THEN [raised |-> FALSE, val |-> Translate(text), translated |-> TRUE]
             ELSE [raised |-> TRUE, exc |-> "TranslationError", translated |-> TRUE]
    ELSE [raised |-> FALSE, val |-> text, translated |-> FALSE]

\* normalize_text(text) with the outcome d of detect and trOk of the
\* translation call.  translated tells whether the translator was called.
normalize_text(text, d, trOk) ==
    IF d = "raised"
      THEN [raised |-> TRUE, exc |-> "LangDetectException", translated |-> FALSE]
    ELSE IF d = "si"
      THEN IF trOk
             THEN [raised |-> FALSE, val |-> Translate(text), translated |-> TRUE]
             ELSE [raised |-> TRUE, exc |-> "TranslationError", translated |-> TRUE]
    ELSE [raised |-> FALSE, val |-> text, translated |-> FALSE]

(* ------------------------- observation records ------------------------ *)
\* The caption provider's answers during one get_captions call: to
\* list_transcripts (None: it fails; Some(tracks): the video's tracks) and to
\* fetch() (None: it fails; Some(segs): the segments of the track fetched).
Provider(listing, fetching) == [listing |-> listing, fetching |-> fetching]
ListAnswers == {None} \cup {Some(tr) : tr \in SUBSET TrackKeys}
FetchAnswers == {None} \cup {Some(segs) : segs \in SegLists}
\* No get_captions call is awaiting consumption of its result.
NoProvider == Provider(None, None)

\* What the log keeps of one candidate: the resolver's result; None, or what
\* the transcribe_audio call did (the download's outcome, whether the audio
\* file existed after it, whether the speech model was invoked); the text
\* acquired (None when none was); the language detected for it (None before
\* detection) and whether the translator was called.
LogEntry(caps, audio, txt) ==
    [captions |-> caps, audio |-> audio, text |-> txt, lang |-> None,
     translated |-> FALSE]
AudioCall(r) == Some([dl |-> r.dl, exists |-> r.exists, model |-> r.model])

(* ------------------------------- state --------------------------------- *)
VARIABLES
    pc,          \* position of run_pipeline
    videos,      \* the candidate list returned by search_videos
    i,           \* index in videos of the candidate of the current iteration
    results,     \* the results list
    captions,    \* local of run_pipeline: result of get_captions
    text,        \* local of run_pipeline
    text_en,     \* local of run_pipeline
    outfile,     \* the JSON file as this run wrote it: None, or Some(the
                 \* list dumped)
    writes,      \* how many times the run opened the JSON file for writing
    audioFiles,  \* ids whose audio/<id>.wav the run has created or found
                 \* (the directory may hold files of earlier runs:
                 \* makedirs(exist_ok=True); one is found when first looked at)
    err,         \* the exception that ended the run, None when none did
    provider,    \* caption provider: what it holds and does for the
                 \* get_captions call whose result is not yet consumed
    fetched,     \* provider: the track whose fetch() get_captions returned
    lang,        \* langdetect: the language detected for text, None before
    log          \* per candidate whose text was acquired: how it was acquired

vars == <<pc, videos, i, results, captions, text, text_en, outfile, writes,
          audioFiles, err, provider, fetched, lang, log>>

Init ==
    /\ pc = "start"
    /\ videos = <<>>
    /\ i = 0
    /\ results = <<>>
    /\ captions = None
    /\ text = ""
    /\ text_en = ""
    /\ outfile = None
    /\ writes = 0
    /\ audioFiles = {}
    /\ err = None
    /\ provider = NoProvider
    /\ fetched = None
    /\ lang = None
    /\ log = <<>>

\* An uncaught exception leaves run_pipeline: the process ends.
Abort(e) ==
    /\ pc' = "aborted"
    /\ err' = Some(e)

(* ------------------------------ actions -------------------------------- *)
\* results = []; videos = search_videos()
SearchVideos ==
    /\ pc = "start"
    /\ \E vs \in CandidateLists : videos' = vs
    /\ i' = 1
    /\ pc' = "iter"
    /\ UNCHANGED <<results, captions, text, text_en, outfile, writes, audioFiles, err,
                   provider, fetched, lang, log>>

\* request.execute() raises (quota, authentication, network).
SearchFails ==
    /\ pc = "start"
    /\ Abort("HttpError")
    /\ UNCHANGED <<videos, i, results, captions, text, text_en, outfile, writes,
                   audioFiles, provider, fetched, lang, log>>

\* for v in videos: ... captions = get_captions(video_id)
GetCaptions ==
    /\ pc = "iter"
    /\ i <= Len(videos)
    /\ \E listing \in ListAnswers, fetching \in FetchAnswers :
          LET r == get_captions(listing, fetching) IN
            /\ provider' = Provider(listing, fetching)
            /\ IF r.raised
                 THEN /\ Abort(r.exc)
                      /\ UNCHANGED <<captions, fetched>>
                 ELSE /\ captions' = r.val
                      /\ fetched' = r.fetched
                      /\ pc' = "branch"
                      /\ UNCHANGED err
    /\ lang' = None
    /\ UNCHANGED <<videos, i, results, text, text_en, outfile, writes, audioFiles, log>>

\* if captions: text = " ".join([c["text"] for c in captions])
JoinCaptions ==
    /\ pc = "branch"
    /\ Truthy(captions)
    /\ text' = JoinTexts(captions[1])
    /\ log' = Append(log, LogEntry(captions, None, Some(text')))
    /\ provider' = NoProvider
    /\ pc' = "normalize"
    /\ UNCHANGED <<videos, i, results, captions, text_en, outfile, writes, audioFiles,
                   err, fetched, lang>>

\* Mutant of TranscribeAudio: the `continue` of main.py:144 is live and a
\* failed transcription is swallowed, so the candidate is skipped.
TranscribeAudio_SkipOnFailure ==
    /\ pc = "branch"
    /\ ~Truthy(captions)
    /\ \E dl \in DownloadOutcomes, m \in ModelOutcomes,
          stale \in SUBSET {videos[i]} :
          LET r == transcribe_audio(Url(videos[i]), audioFiles \cup stale, dl, m) IN
            /\ audioFiles' = r.files
            /\ IF r.raised
                 THEN /\ log' = Append(log, LogEntry(captions, AudioCall(r), None))
                      /\ i' = i + 1
                      /\ pc' = "iter"
                      /\ UNCHANGED text
                 ELSE /\ text' = r.val
                      /\ log' = Append(log, LogEntry(captions, AudioCall(r),
                                                     Some(r.val)))
                      /\ pc' = "normalize"
                      /\ UNCHANGED i
    /\ provider' = NoProvider
    /\ UNCHANGED <<videos, results, captions, text_en, outfile, writes, fetched,
                   lang, err>>

\* Mutant of TranscribeAudio: a failed transcription is caught and the
\* candidate is tried again from the caption check, without limit.
TranscribeAudio_RetryOnFailure ==
    /\ pc = "branch"
    /\ ~Truthy(captions)
    /\ \E dl \in DownloadOutcomes, m \in ModelOutcomes,
          stale \in SUBSET {videos[i]} :
          LET r == transcribe_audio(Url(videos[i]), audioFiles \cup stale, dl, m) IN
            /\ audioFiles' = r.files
            /\ IF r.raised
                 THEN /\ pc' = "iter"
                      /\ UNCHANGED <<text, log>>
                 ELSE /\ text' = r.val
                      /\ log' = Append(log, LogEntry(captions, AudioCall(r),
                                                     Some(r.val)))
                      /\ pc' = "normalize"
    /\ provider' = NoProvider
    /\ UNCHANGED <<videos, i, results, captions, text_en, outfile, writes,
                   fetched, lang, err>>

\* else: text = transcribe_audio(url)
TranscribeAudio ==
    /\ pc = "branch"
    /\ ~Truthy(captions)
    /\ \E dl \in DownloadOutcomes, m \in ModelOutcomes,
          stale \in SUBSET {videos[i]} :
          LET r == transcribe_audio(Url(videos[i]), audioFiles \cup stale, dl, m) IN
            /\ audioFiles' = r.files
            /\ IF r.raised
                 THEN /\ Abort(r.exc)
                      /\ log' = Append(log, LogEntry(captions, AudioCall(r), None))
                      /\ UNCHANGED text
                 ELSE /\ text' = r.val
                      /\ log' = Append(log, LogEntry(captions, AudioCall(r),
                                                     Some(r.val)))
                      /\ pc' = "normalize"
                      /\ UNCHANGED err
    /\ provider' = NoProvider
    /\ UNCHANGED <<videos, i, results, captions, text_en, outfile, writes, fetched, lang>>

\* text_en = normalize_text(text)
NormalizeText ==
    /\ pc = "normalize"
    /\ \E d \in DetectOutcomes, trOk \in BOOLEAN :
          LET r == normalize_text(text, d, trOk) IN
            /\ lang' = IF d = "raised" THEN None ELSE Some(d)
            /\ log' = [log EXCEPT ![i].lang = lang', ![i].translated = r.translated]
            /\ IF r.raised
                 THEN /\ Abort(r.exc)
                      /\ UNCHANGED text_en
                 ELSE /\ text_en' = r.val
                      /\ pc' = "append"
                      /\ UNCHANGED err
    /\ UNCHANGED <<videos, i, results, captions, text, outfile, writes, audioFiles,
                   provider, fetched>>

\* The record appended for candidate video_id (main.py:148-155).
Record(video_id, content) ==
    [video_id |-> video_id, source |-> "YouTube", url |-> Url(video_id),
     content_en |-> content]

\* Mutant of AppendRecord: results.insert(0, ...), newest record first.
AppendRecord_Prepend ==
    /\ pc = "append"
    /\ results' = <<Record(videos[i], text_en)>> \o results
    /\ i' = i + 1
    /\ pc' = "iter"
    /\ UNCHANGED <<videos, captions, text, text_en, outfile, writes, audioFiles,
                   err, provider, fetched, lang, log>>

\* Mutant of AppendRecord: the file is dumped inside the loop, after each
\* record.
AppendRecord_DumpEachItem ==
    /\ pc = "append"
    /\ results' = Append(results, Record(videos[i], text_en))
    /\ outfile' = Some(results')
    /\ writes' = writes + 1
    /\ i' = i + 1
    /\ pc' = "iter"
    /\ UNCHANGED <<videos, captions, text, text_en, audioFiles, err, provider,
                   fetched, lang, log>>

\* Mutant of AppendRecord: results = [] sits inside the loop, so each record
\* replaces the list.
AppendRecord_ResetList ==
    /\ pc = "append"
    /\ results' = <<Record(videos[i], text_en)>>
    /\ i' = i + 1
    /\ pc' = "iter"
    /\ UNCHANGED <<videos, captions, text, text_en, outfile, writes, audioFiles,
                   err, provider, fetched, lang, log>>

\* Mutant of AppendRecord: the record carries text, not text_en.
AppendRecord_RawText ==
    /\ pc = "append"
    /\ results' = Append(results, Record(videos[i], text))
    /\ i' = i + 1
    /\ pc' = "iter"
    /\ UNCHANGED <<videos, captions, text, text_en, outfile, writes, audioFiles, err,
                   provider, fetched, lang, log>>

\* results.append({...}); the loop moves to the next candidate.
AppendRecord ==
    /\ pc = "append"
    /\ results' = Append(results, Record(videos[i], text_en))
    /\ i' = i + 1
    /\ pc' = "iter"
    /\ UNCHANGED <<videos, captions, text, text_en, outfile, writes, audioFiles, err,
                   provider, fetched, lang, log>>

\* Mutant of WriteOutput: the dump sits in a finally block, so it also runs
\* when an exception ended the loop.
WriteOutput_Finally ==
    /\ \/ pc = "iter" /\ i > Len(videos)
       \/ pc = "aborted" /\ outfile = None
    /\ outfile' = Some(results)
    /\ writes' = writes + 1
    /\ pc' = IF pc = "aborted" THEN "aborted" ELSE "done"
    /\ UNCHANGED <<videos, i, results, captions, text, text_en, audioFiles,
                   err, provider, fetched, lang, log>>

\* After the loop: json.dump(results, f)
WriteOutput ==
    /\ pc = "iter"
    /\ i > Len(videos)
    /\ outfile' = Some(results)
    /\ writes' = writes + 1
    /\ pc' = "done"
    /\ UNCHANGED <<videos, i, results, captions, text, text_en, audioFiles,
                   err, provider, fetched, lang, log>>

Next ==
    \/ SearchVideos
    \/ SearchFails
    \/ GetCaptions
    \/ JoinCaptions
    \/ TranscribeAudio
    \/ NormalizeText
    \/ AppendRecord
    \/ WriteOutput

Spec == Init /\ [][Next]_vars

(* ------------------------------ claims --------------------------------- *)
\* get_captions has returned and run_pipeline has not yet consumed the result.
Resolved == pc = "branch"
\* The provider signalled no error to the get_captions call just made.
NoProviderFailure == provider.listing # None /\ provider.fetching # None
\* The video of that call has exactly / at least the tracks trs.
HasTracks(trs) == provider.listing # None /\ trs \subseteq provider.listing[1]
OnlyTracks(trs) == provider.listing # None /\ provider.listing[1] \subseteq trs
\* Errors the caption provider signals.
CaptionProviderErrors ==
    {"TranscriptsDisabled", "NoTranscriptFound", "CouldNotRetrieveTranscript"}
\* Errors raised while one candidate is processed.
PerItemErrors ==
    {"DownloadError", "RuntimeError", "ModelError", "LangDetectException",
     "TranslationError"}

\* C1: when the video has a manually created 'si' track, whatever other
\* tracks exist, get_captions returns the segments fetched from that track
\* (None only when the provider fails), never those of the manual 'en' track
\* or of a generated track.
C1_ManualSiFirst ==
    (Resolved /\ HasTracks({ManualSi})) =>
        /\ NoProviderFailure =>
              captions = provider.fetching /\ fetched = Some(ManualSi)
        /\ captions # None => fetched = Some(ManualSi)
        /\ fetched \notin {Some(ManualEn), Some(GeneratedSi), Some(GeneratedEn)}

C1_Witness ==
    /\ Resolved
    /\ HasTracks(TrackKeys)
    /\ NoProviderFailure
    /\ fetched = Some(ManualSi)
    /\ captions # None /\ Len(captions[1]) = 2

\* C2: when the only track of the video is a manually created 'en' track
\* and the provider does not fail, get_captions returns that track's
\* segments, not None.
C2_OnlyManualEn ==
    (Resolved /\ HasTracks({ManualEn}) /\ OnlyTracks({ManualEn})
       /\ NoProviderFailure) =>
        captions = provider.fetching /\ fetched = Some(ManualEn)

\* C3: when the video has only auto-generated tracks and the provider does
\* not fail, get_captions returns the generated track's segments; and
\* generated segments are returned only when no manual track exists.
C3_OnlyGenerated ==
    /\ (Resolved /\ NoProviderFailure
          /\ (HasTracks({GeneratedSi}) \/ HasTracks({GeneratedEn}))
          /\ OnlyTracks({GeneratedSi, GeneratedEn})) =>
            /\ captions = provider.fetching
            /\ fetched \in {Some(GeneratedSi), Some(GeneratedEn)}
    /\ (Resolved /\ fetched \in {Some(GeneratedSi), Some(GeneratedEn)}) =>
            OnlyTracks({GeneratedSi, GeneratedEn})

\* C4: get_captions never raises: whenever the provider signals an error at
\* any step, get_captions returns None, no provider error ever ends the run,
\* and a candidate for which None was returned goes to transcribe_audio.
C4_ProviderErrorsBecomeNone ==
    /\ (Resolved /\ get_captions_try(provider.listing, provider.fetching).raised) =>
            captions = None
    /\ err # None => err[1] \notin CaptionProviderErrors
    /\ (Resolved /\ captions = None) =>
            ENABLED TranscribeAudio /\ ~ENABLED JoinCaptions
    /\ \A k \in DOMAIN log : log[k].captions = None => log[k].audio # None

C4_Witness ==
    /\ Resolved
    /\ i = 2
    /\ HasTracks(TrackKeys)
    /\ provider.fetching = None
    /\ captions = None
    /\ ENABLED TranscribeAudio

\* C5 as stated: transcribe_audio is invoked only for candidates for which
\* get_captions returned None.
C5_AudioOnlyWhenAbsent ==
    \A k \in DOMAIN log : log[k].audio # None => log[k].captions = None

\* C5 amended: transcribe_audio is invoked only for candidates for which
\* get_captions returned None or a transcript of zero segments; for a
\* transcript of one or more segments neither the download nor the speech
\* model is invoked.
C5_AudioOnlyWhenFalsy ==
    \A k \in DOMAIN log :
        /\ log[k].audio # None => log[k].captions \in {None, Some(<<>>)}
        /\ (log[k].captions # None /\ Len(log[k].captions[1]) > 0) =>
              log[k].audio = None

C5_Witness ==
    \E k \in DOMAIN log :
        /\ log[k].captions # None
        /\ Len(log[k].captions[1]) = 1
        /\ log[k].audio = None
        /\ Len(log) > k
        /\ log[k + 1].audio # None

\* The audio acquisition of some candidate left no output file.
AudioFileMissing(k) ==
    /\ log[k].audio # None
    /\ log[k].audio[1].dl # "raised"
    /\ ~log[k].audio[1].exists

\* C6: a candidate without captions whose audio acquisition leaves no file
\* does not abort the batch: the run goes on and ends with a written file
\* holding the records of the other candidates.
C6_AudioFailureContained ==
    \A k \in DOMAIN log : AudioFileMissing(k) =>
        /\ pc # "aborted"
        /\ pc = "done" => outfile # None /\ Len(outfile[1]) >= Len(videos) - 1

\* C7: an error raised while candidate i is processed aborts the run: the
\* run has stopped for good, no candidate after i was touched, the file is
\* not written and the i-1 records already appended are not persisted.
C7_ErrorAbortsRun ==
    (err # None /\ err[1] \in PerItemErrors) =>
        /\ pc = "aborted"
        /\ ~ENABLED Next
        /\ outfile = None
        /\ Len(log) = i
        /\ Len(results) = i - 1

C7_Witness ==
    /\ pc = "aborted"
    /\ err = Some("LangDetectException")
    /\ i = 2
    /\ Len(results) = 1
    /\ outfile = None

\* C8: when audio/<video_id>.wav does not exist after the download returned,
\* RuntimeError is raised before the speech model is invoked, and it ends
\* the run: no text, no record and no file come of it.
C8_MissingAudioIsFatal ==
    \A k \in DOMAIN log : AudioFileMissing(k) =>
        /\ ~log[k].audio[1].model
        /\ log[k].text = None
        /\ pc = "aborted" /\ err = Some("RuntimeError")
        /\ k = i /\ Len(results) < k
        /\ outfile = None

C8_Witness ==
    /\ Len(log) = 2
    /\ AudioFileMissing(2)
    /\ log[2].audio[1].dl = "nofile"
    /\ err = Some("RuntimeError")

\* C9: when detection succeeds, normalize_text returns the translation of
\* the text if the detected language is 'si' (raising only if the translator
\* does), and otherwise returns the text itself without calling the
\* translator.
C9_NormalizeByLanguage ==
    /\ pc = "append" =>
          /\ lang # None
          /\ lang[1] = "si" => text_en = Translate(text) /\ log[i].translated
          /\ lang[1] # "si" => text_en = text /\ ~log[i].translated
    /\ (lang # None /\ lang[1] # "si") => err = None
    /\ (lang # None /\ err # None) => err = Some("TranslationError")

C9_Witness ==
    /\ pc = "append"
    /\ lang = Some("ta")
    /\ text_en = text
    /\ Len(log) = 2
    /\ log[1].lang = Some("si")
    /\ results[1].content_en = Translate(log[1].text[1])

\* The text acquired for the candidate of log entry e: the joined captions
\* or the speech model's transcript.
AcquiredText(e) ==
    IF e.audio = None THEN Some(JoinTexts(e.captions[1])) ELSE e.text

\* C10: every record's content_en is the normalizer's output for the text
\* acquired for its candidate: the translation, not the acquired text, when
\* that text was detected as 'si'; the acquired text itself otherwise.
C10_ContentIsNormalized ==
    \A k \in DOMAIN results :
        /\ k \in DOMAIN log
        /\ log[k].text # None /\ log[k].text = AcquiredText(log[k])
        /\ log[k].lang # None
        /\ IF log[k].lang[1] = "si"
             THEN /\ results[k].content_en = Translate(log[k].text[1])
                  /\ results[k].content_en # log[k].text[1]
             ELSE results[k].content_en = log[k].text[1]

C10_Witness ==
    /\ Len(results) = 2
    /\ log[1].audio = None /\ log[1].lang = Some("si")
    /\ results[1].content_en = "en(a b)"
    /\ log[2].audio # None /\ log[2].lang = Some("en")
    /\ results[2].content_en = "parliament convenes today"

\* The video_id values of a list of records, in order.
IdsOf(records) == [k \in DOMAIN records |-> records[k].video_id]

\* C11: on a run that completes, the video_id sequence of the written list
\* equals the candidate id sequence (same order, one record per candidate),
\* whichever acquisition path and normalization each candidate took.
C11_OutputOrderIsCandidateOrder ==
    pc = "done" =>
        /\ outfile # None
        /\ Len(outfile[1]) = Len(videos)
        /\ IdsOf(outfile[1]) = videos

C11_Witness ==
    /\ pc = "done"
    /\ videos = <<2, 1>>
    /\ IdsOf(outfile[1]) = <<2, 1>>
    /\ log[1].audio # None /\ log[1].lang = Some("en")
    /\ log[2].audio = None /\ log[2].lang = Some("si")

\* The texts of n segments "a", "b", ... joined by single spaces.
JoinedPrefix == <<"a", "a b", "a b c", "a b c d", "a b c d e", "a b c d e f">>

\* C12: on the caption path the text handed to the normalizer is the
\* segments' texts in segment order, joined by exactly one space, with no
\* leading or trailing separator; a single segment yields its text unchanged.
C12_JoinBySingleSpace ==
    \A k \in DOMAIN log : log[k].audio = None =>
        LET segs == log[k].captions[1] IN
          /\ log[k].text # None
          /\ IF Len(segs) = 1 THEN log[k].text[1] = segs[1].text
             ELSE log[k].text[1] = JoinedPrefix[Len(segs)]
          /\ (k = i /\ pc = "normalize") => text = log[k].text[1]

C12_Witness ==
    /\ pc = "normalize"
    /\ log[i].audio = None
    /\ Len(log[i].captions[1]) = 3
    /\ text = "a b c"

\* C13: the file is written at most once, only when every candidate has been
\* processed and recorded; a completed run has written it exactly once, with
\* the whole results list; while candidates remain nothing is written.
C13_SingleWriteAtEnd ==
    /\ writes <= 1
    /\ writes = 0 => outfile = None
    /\ writes > 0 =>
          /\ i = Len(videos) + 1
          /\ Len(results) = Len(videos)
          /\ outfile = Some(results)
          /\ pc = "done"
    /\ pc = "done" => writes = 1
    /\ (pc \in {"iter", "branch", "normalize", "append"} /\ i <= Len(videos)) =>
          outfile = None

C13_Witness ==
    /\ pc = "done"
    /\ writes = 1
    /\ Len(videos) = 2
    /\ outfile = Some(results)
    /\ Len(outfile[1]) = 2

\* The stage of the current candidate, in the terms of the per-item state
\* machine.
Stage ==
    CASE pc = "iter" /\ i <= Len(videos) -> "Pending"
      [] pc = "branch" /\ Truthy(captions) -> "CaptionsFound"
      [] pc = "branch" /\ ~Truthy(captions) -> "CaptionsAbsent"
      [] pc = "normalize" /\ log[i].audio = None -> "TextFromCaptions"
      [] pc = "normalize" /\ log[i].audio # None -> "TranscribedViaAudio"
      [] pc = "append" -> "Normalized"
      [] pc = "aborted" -> "RunAborted"
      [] OTHER -> "NoItem"

\* The steps the per-item state machine allows: <<stage, next stage>>.
StageSteps ==
    {<<"NoItem", "Pending">>, <<"NoItem", "NoItem">>, <<"NoItem", "RunAborted">>,
     <<"Pending", "CaptionsFound">>, <<"Pending", "CaptionsAbsent">>,
     <<"CaptionsFound", "TextFromCaptions">>,
     <<"CaptionsAbsent", "TranscribedViaAudio">>,
     <<"CaptionsAbsent", "RunAborted">>,
     <<"TextFromCaptions", "Normalized">>, <<"TextFromCaptions", "RunAborted">>,
     <<"TranscribedViaAudio", "Normalized">>,
     <<"TranscribedViaAudio", "RunAborted">>,
     <<"Normalized", "Pending">>, <<"Normalized", "NoItem">>}

\* C14: each candidate passes the stages in the fixed order Pending ->
\* captions checked (found | absent -> transcribed via audio) -> normalized ->
\* recorded; no stage is repeated or skipped; the loop moves to the next
\* candidate only by appending the current one's record, so an item is
\* either recorded or the whole run aborts.
C14_StageOrder ==
    [][/\ <<Stage, Stage'>> \in StageSteps
       /\ (pc # "start" /\ i' # i) =>
             /\ Stage = "Normalized"
             /\ i' = i + 1
             /\ results' = Append(results, Record(videos[i], text_en))
       /\ Len(results') # Len(results) => (Stage = "Normalized" /\ i' = i + 1)
       /\ Stage' = "RunAborted" => (i' = i /\ results' = results)]_vars

C14_Witness ==
    /\ pc = "done"
    /\ Len(results) = 2
    /\ log[1].audio = None
    /\ log[2].audio # None
    /\ log[2].captions = Some(<<>>)

\* One sequence is an initial part of another.
IsPrefix(s, t) == Len(s) <= Len(t) /\ \A k \in DOMAIN s : s[k] = t[k]

\* C15: the results list is append-only: its video_id sequence is always a
\* prefix of the candidate id sequence, and every step leaves it unchanged or
\* appends exactly one record, for the current candidate, in the loop's
\* append step; the caption, transcription and normalization steps leave it
\* as it is.
C15_ResultsAppendOnly ==
    /\ [](IsPrefix(IdsOf(results), videos) /\ Len(results) = IF i = 0 THEN 0 ELSE
            IF pc = "done" THEN Len(videos) ELSE i - 1)
    /\ [][\/ results' = results
          \/ /\ pc = "append"
             /\ Len(results') = Len(results) + 1
             /\ IsPrefix(results, results')
             /\ results'[Len(results')].video_id = videos[i]]_vars

C15_Witness ==
    /\ pc = "normalize"
    /\ i = 2
    /\ Len(videos) = 2
    /\ Len(results) = 1
    /\ IdsOf(results) = <<videos[1]>>
    /\ log[2].audio # None

\* The run created audio/<id>.wav for the candidate of log entry k.
AudioCreated(k) == log[k].audio # None /\ log[k].audio[1].dl = "created"

\* C16: temporary audio files do not leak: a file created while a candidate
\* was processed no longer exists once that candidate is recorded, and none
\* remains when the run has ended.
C16_NoAudioLeak ==
    /\ \A k \in DOMAIN results : AudioCreated(k) => videos[k] \notin audioFiles
    /\ pc \in {"done", "aborted"} =>
          \A k \in DOMAIN log : AudioCreated(k) => videos[k] \notin audioFiles

\* C17 as stated: a fetched transcript of zero segments is handled like None
\* (transcribe_audio is invoked), so text from the caption path comes from a
\* transcript of at least one segment and is never the empty string.
C17_CaptionTextNeverEmpty ==
    \A k \in DOMAIN log :
        /\ log[k].captions = Some(<<>>) => log[k].audio # None
        /\ log[k].audio = None =>
              /\ Len(log[k].captions[1]) >= 1
              /\ log[k].text # Some("")

\* C17 amended: a fetched transcript of zero segments is handled like None,
\* so text from the caption path comes from a transcript of at least one
\* segment; it is the empty string exactly when that transcript is a single
\* segment whose text is empty.
C17_EmptyTranscriptIsAbsent ==
    \A k \in DOMAIN log :
        /\ log[k].captions = Some(<<>>) => log[k].audio # None
        /\ log[k].audio = None =>
              LET segs == log[k].captions[1] IN
                /\ Len(segs) >= 1
                /\ log[k].text # None
                /\ log[k].text = Some("") <=> (Len(segs) = 1 /\ segs[1].text = "")

C17_Witness ==
    /\ Len(log) = 2
    /\ log[1].captions = Some(<<>>)
    /\ log[1].audio # None /\ log[1].audio[1].model
    /\ log[2].captions = Some(<<Segment("")>>)
    /\ log[2].audio = None
    /\ log[2].text = Some("")

\* run_pipeline is one sequential thread: as long as a step is possible the
\* next one is taken (every collaborator call returns or raises).
FairSpec == Spec /\ WF_vars(Next)

Completed ==
    /\ pc = "done"
    /\ err = None
    /\ Len(results) = Len(videos)
    /\ outfile = Some(results)
Aborted ==
    /\ pc = "aborted"
    /\ err # None
    /\ outfile = None

\* C18: every run ends, in exactly one of two states, Completed (every
\* candidate recorded, the file written) or Aborted (an error left the run,
\* no file written), and stays there; each candidate is taken at most once:
\* the loop index never goes back and get_captions is called once per index.
C18_RunTerminates ==
    /\ <>(Completed \/ Aborted)
    /\ [](~(Completed /\ Aborted))
    /\ [](pc \in {"done", "aborted"} => (Completed \/ Aborted) /\ ~ENABLED Next)
    /\ [][i' >= i]_vars
    /\ [][(pc = "iter" /\ pc' = "branch") => Len(log) = i - 1]_vars

C18_Witness ==
    /\ Aborted
    /\ err = Some("TranslationError")
    /\ i = 2
    /\ Len(videos) = 2
    /\ Len(log) = 2

====
